---- MODULE Spec2Model ----
(***************************************************************************)
(* Tracking control loop of satellites.py: the timer handler               *)
(* RigControl.Updater, the tracker RigControl.track_freqs, the selection   *)
(* routine plot_sky_track and the operator handlers of SAT_GUI.            *)
(*                                                                         *)
(* Python floats are held as exact rationals <<numerator, denominator>>    *)
(* (denominator > 0, lowest terms); int() truncates toward zero.           *)
(* An attribute that has not been assigned yet, and Python's None, are the *)
(* empty tuple <<>> (for tuples) or the string "None" (for names).         *)
(***************************************************************************)
EXTENDS Integers, Sequences, FiniteSets, TLC

\* ---------------------------------------------------------------- constants
ROTOR_THRESH == 10
RIT_DELTA == 100
XIT_DELTA == 100
THRESH == 15
\* the factor 1e-8 of Doppler_Shifts, as the denominator of a rational
DopplerDen == 100000000

\* ------------------------------------------------------------------- bounds
MaxLog == 2
MaxCmds == 2
MaxTrackLen == 3
MaxTransponders == 3

\* ------------------------------------------------------- rational arithmetic
Unset == <<>>

Abs(x) == IF x < 0 THEN -x ELSE x

RECURSIVE GCD(_, _)
GCD(a, b) == IF b = 0 THEN a ELSE GCD(b, a % b)

Norm(n, d) == LET g == GCD(Abs(n), d) IN <<n \div g, d \div g>>

FromInt(i) == <<i, 1>>

RatAdd(x, y) ==
    LET g == GCD(x[2], y[2])
        l == (x[2] \div g) * y[2]
    IN  Norm(x[1] * (l \div x[2]) + y[1] * (l \div y[2]), l)

RatNeg(x) == <<-x[1], x[2]>>

RatSub(x, y) == RatAdd(x, RatNeg(y))

RatMul(x, y) ==
    LET g1 == GCD(Abs(x[1]), y[2])
        g2 == GCD(Abs(y[1]), x[2])
    IN  <<(x[1] \div g1) * (y[1] \div g2), (x[2] \div g2) * (y[2] \div g1)>>

\* int(x): truncation toward zero
RatInt(x) == IF x[1] >= 0 THEN x[1] \div x[2] ELSE -((-x[1]) \div x[2])

RatDiv(x, y) ==
    RatMul(x, IF y[1] > 0 THEN <<y[2], y[1]>> ELSE <<-y[2], -y[1]>>)

\* ------------------------------------------------------------ program data
\* gui.Satellites: per satellite the transponder table read by
\* get_transponders and the name of its main transponder
Satellites ==
    [ s \in {"AO-91", "RS-44", "NO-44"} |->
        IF s = "NO-44"
        THEN [ main |-> "None",
               transponders |->
                 [ t \in {"Telemetry"} |->
                     [ fdn1 |-> 1400, fdn2 |-> 1400, fup1 |-> 0, fup2 |-> 0,
                       Inverting |-> FALSE, mode |-> "FM" ] ] ]
        ELSE IF s = "AO-91"
        THEN [ main |-> "Mode U/V FM Voice",
               transponders |->
                 [ t \in {"Mode U/V FM Voice"} |->
                     [ fdn1 |-> 1000, fdn2 |-> 1010, fup1 |-> 3000, fup2 |-> 3010,
                       Inverting |-> FALSE, mode |-> "FM" ] ] ]
        ELSE [ main |-> "Mode V/U Linear Transponder",
               transponders |->
                 [ t \in {"Mode V/U Linear Transponder"} |->
                     [ fdn1 |-> 1200, fdn2 |-> 1241, fup1 |-> 2000, fup2 |-> 2041,
                       Inverting |-> TRUE, mode |-> "USB" ] ] ] ]

SatNames == DOMAIN Satellites

\* gui.MODES
MODES == <<"USB", "LSB", "CW", "FM">>

\* start-up configurations <<P.sock.rig_type2, P.sock2.active, P.USE_SDR,
\* frequency the radio is tuned to>>: the four rig types Updater accepts
Configs ==
    { <<"FT991a", TRUE, TRUE, 1050>>, <<"IC9700", TRUE, FALSE, 1050>>,
      <<"pySDR", FALSE, TRUE, 1050>>, <<"Dummy", FALSE, FALSE, 0>> }

\* the passes the operator can select: <<satellite, azimuths of the samples
\* of the sky track the propagator yields for the pass, transit.start,
\* transit.end>> (times in seconds, as rationals)
Passes ==
    { <<"AO-91", <<100, 170, 190, 260>>, <<1000, 1>>, <<1600, 1>> >>,
      <<"RS-44", <<30, 60, 100>>, <<10001, 2>>, <<12001, 2>> >> }

\* the same with a pass of the satellite that has no main transponder
PassesNoMain == Passes \cup { <<"NO-44", <<40, 80>>, <<1000, 1>>, <<1600, 1>> >> }

\* obs['doppler'] (shift at 100 MHz), obs['azimuth'], obs['elevation']
\* and pos, the position the rotor reports; ok: predict.observe returned
In(d, a, e, p) == [dop100 |-> d, az |-> a, el |-> e, pos |-> p, ok |-> TRUE]

\* predict.observe raises: no sample for this call
NoSample == [dop100 |-> 0, az |-> 0, el |-> 0, pos |-> <<0, 0>>, ok |-> FALSE]

\* inputs that vary the Doppler shift
FreqInputs ==
    { In(-10000000, 100, 20, <<105, 23>>), In(10000000, 100, 20, <<105, 23>>) }

\* inputs that vary the geometry and the rotor's position
RotorInputs ==
    { In(10000000, 100, 20, <<105, 23>>), In(10000000, 100, 20, <<110, 30>>),
      In(10000000, 100, 20, <<112, 20>>), In(10000000, 200, 20, <<105, 23>>),
      In(10000000, 180, 20, <<105, 23>>), In(10000000, 100, -5, <<105, 23>>),
      In(10000000, 100, 0, <<105, 3>>) }

\* input of the operator's forced tracker calls while the geometry is varied
CalmInputs == { In(10000000, 100, 20, <<105, 23>>) }

\* inputs with a call for which the propagator yields no sample
StaleInputs == { In(-10000000, 100, 20, <<105, 23>>), NoSample }

\* main-dial steps of the operator
DialSteps == {5}

\* readings of the clock (seconds), time.mktime(datetime.now().timetuple())
CalmClock == {880}

\* readings before, at and after the start and the end of the passes
ClockSamples == {0, 880, 999, 1000, 1001, 1599, 1600, 1601, 5000, 5001, 6000, 6001}

\* --------------------------------------------------------------- the state
VARIABLES
    phase,              \* "startup" (before app.exec_), "running", "dialog"
                        \* (inside msgBox.exec of ToggleRigControl), "dead"
    Selected,           \* gui.Selected
    New_Sat_Selection,  \* gui.New_Sat_Selection
    flipper,            \* gui.flipper
    rit, xit,           \* gui.rit, gui.xit
    rig_engaged,        \* gui.rig_engaged
    track_az,           \* gui.track_az
    aos, los,           \* gui.aos, gui.los
    txt9,               \* text of gui.txt9, the AOS/LOS indicator
    mode_cb,            \* gui.mode_cb.currentText()
    satellite,          \* ctrl.satellite (a key of Satellites)
    transp,             \* ctrl.transp: <<satellite, transponder name>>
    vfos,               \* ctrl.vfos
    fdown, fdop1, fup,  \* ctrl.fdown, ctrl.fdop1, ctrl.fup
    frqA, frqB,         \* ctrl.frqA, ctrl.frqB (<<value>> once assigned)
    fp_log,             \* rows written to ctrl.fp_log
    rig_type2,          \* P.sock.rig_type2
    rotor_active,       \* P.sock2.active
    USE_SDR,            \* P.USE_SDR
    radioA,             \* frequency of the radio's downlink VFO
    rotorCmd,           \* last position given to set_position
    modeDn, modeUp,     \* last mode given to set_mode, per VFO
    writes,             \* device commands issued by the last handler
    op,                 \* the last handler
    run,                \* locals of the last handler's track_freqs call
    cmds                \* number of operator commands so far

guiVars  == <<Selected, New_Sat_Selection, flipper, rit, xit, rig_engaged,
              track_az, aos, los, mode_cb>>
ctrlVars == <<satellite, transp, vfos, fdown, fdop1, fup, frqA, frqB, fp_log>>
cfgVars  == <<rig_type2, rotor_active, USE_SDR>>
hwVars   == <<radioA, rotorCmd, modeDn, modeUp>>
vars     == <<phase, guiVars, txt9, ctrlVars, cfgVars, hwVars, writes, op, run,
              cmds>>

\* the handler called no tracker / raised before it called the tracker
NoRun == [ran |-> FALSE, raised |-> FALSE]
Raised == [ran |-> FALSE, raised |-> TRUE]

\* SAT_GUI.__init__ and RigControl.__init__, before __main__ selects a pass
Init ==
    /\ phase = "startup"
    /\ Selected = "None"
    /\ New_Sat_Selection = FALSE
    /\ flipper = FALSE
    /\ rit = 0
    /\ xit = 0
    /\ rig_engaged = FALSE
    /\ track_az = <<>>
    /\ aos = Unset
    /\ los = Unset
    /\ txt9 = [label |-> "Hey!", hms |-> <<>>]
    /\ mode_cb = MODES[1]
    /\ satellite = "None"
    /\ transp = Unset
    /\ vfos = Unset
    /\ fdown = Unset
    /\ fdop1 = Unset
    /\ fup = Unset
    /\ frqA = 0
    /\ frqB = Unset
    /\ fp_log = <<>>
    /\ \E c \in Configs :
         /\ rig_type2 = c[1]
         /\ rotor_active = c[2]
         /\ USE_SDR = c[3]
         /\ radioA = c[4]
    /\ rotorCmd = Unset
    /\ modeDn = "None"
    /\ modeUp = "None"
    /\ writes = {}
    /\ op = "init"
    /\ run = NoRun
    /\ cmds = 0

\* ------------------------------------------------------- flip-ambiguity test
quad2(a) == a > 90 /\ a < 180
quad3(a) == a > 180 /\ a < 270

Min2(a, b) == IF a < b THEN a ELSE b
Max2(a, b) == IF a > b THEN a ELSE b

\* the loop of plot_sky_track over the samples: <<min2, max3>>
RECURSIVE FlipLoop(_, _, _, _)
FlipLoop(az, i, min2, max3) ==
    IF i > Len(az) THEN <<min2, max3>>
    ELSE IF quad2(az[i]) THEN FlipLoop(az, i + 1, Min2(min2, az[i]), max3)
    ELSE IF quad3(az[i]) THEN FlipLoop(az, i + 1, min2, Max2(max3, az[i]))
    ELSE FlipLoop(az, i + 1, min2, max3)

FlipDecision_BothMargins(az) ==
    LET both == (\E i \in 1..Len(az) : quad2(az[i]))
                /\ (\E i \in 1..Len(az) : quad3(az[i]))
        mm   == FlipLoop(az, 1, 360, 0)
    IN  IF both
        THEN IF mm[2] < 180 + THRESH /\ mm[1] > 180 - THRESH THEN FALSE ELSE TRUE
        ELSE FALSE

FlipDecision_NoOverride(az) ==
    (\E i \in 1..Len(az) : quad2(az[i])) /\ (\E i \in 1..Len(az) : quad3(az[i]))

\* the new value of gui.flipper for a sky track
FlipDecision(az) ==
    LET both == (\E i \in 1..Len(az) : quad2(az[i]))
                /\ (\E i \in 1..Len(az) : quad3(az[i]))
        mm   == FlipLoop(az, 1, 360, 0)
    IN  IF both
        THEN IF mm[2] < 180 + THRESH \/ mm[1] > 180 - THRESH THEN FALSE ELSE TRUE
        ELSE FALSE

\* ---------------------------------------------------------------- tracker
TranspRec(tr) == Satellites[tr[1]].transponders[tr[2]]

\* passband centre: 0.5*(fdn1+fdn2)
Center(t) == RatMul(<<1, 2>>, FromInt(t.fdn1 + t.fdn2))

UplinkFreq_NeverInverts(t, fd) ==
    RatAdd(FromInt(t.fup1), RatSub(fd, FromInt(t.fdn1)))

\* uplink corresponding to the downlink fd
UplinkFreq(t, fd) ==
    LET df == RatSub(fd, FromInt(t.fdn1))
    IN  IF t.Inverting THEN RatSub(FromInt(t.fup2), df)
        ELSE RatAdd(FromInt(t.fup1), df)

Doppler_Shifts_SameSense(dop100, fdn, fu) ==
    [ fdop1 |-> RatMul(RatMul(<<1, DopplerDen>>, FromInt(dop100)), fdn),
      fdop2 |-> RatMul(RatMul(<<1, DopplerDen>>, FromInt(dop100)), fu) ]

\* SATELLITE.Doppler_Shifts: [fdop1, fdop2] for the observed dop100
Doppler_Shifts(dop100, fdn, fu) ==
    [ fdop1 |-> RatMul(RatMul(<<1, DopplerDen>>, FromInt(dop100)), fdn),
      fdop2 |-> RatMul(RatMul(<<-1, DopplerDen>>, FromInt(dop100)), fu) ]

Commanded_NoOffset(f, dop, off) == RatInt(RatAdd(f, dop))

\* commanded frequency: int(f + doppler + offset)
Commanded(f, dop, off) == RatInt(RatAdd(RatAdd(f, dop), FromInt(off)))

NewPos_TruePosition(az, el, tk) == <<az, el>>

\* rotor target before the flip
NewPos(az, el, tk) == IF el >= 0 THEN <<az, el>> ELSE <<tk[1], 0>>

FlipPos_AzimuthOnly(p, flip) ==
    IF flip
    THEN IF p[1] < 180 THEN <<p[1] + 180, p[2]>> ELSE <<p[1] - 180, p[2]>>
    ELSE p

FlipPos_NoWrap(p, flip) ==
    IF flip THEN <<p[1] + 180, 180 - p[2]>> ELSE p

\* rotor target after the flip
FlipPos(p, flip) ==
    IF flip
    THEN IF p[1] < 180 THEN <<p[1] + 180, 180 - p[2]>>
         ELSE <<p[1] - 180, 180 - p[2]>>
    ELSE p

RotorError_AtThreshold(pos, np) ==
    Abs(pos[1] - np[1]) >= ROTOR_THRESH \/ Abs(pos[2] - np[2]) >= ROTOR_THRESH

\* pointing error large enough to move the rotor
RotorError(pos, np) ==
    Abs(pos[1] - np[1]) > ROTOR_THRESH \/ Abs(pos[2] - np[2]) > ROTOR_THRESH

Transmit_Always(engaged, Force) == TRUE

\* whether track_freqs transmits
Transmit(engaged, Force) == engaged \/ Force

\* RigControl.track_freqs(Force) for transponder tr, VFOs vf, downlink fd,
\* offsets r (rit) and x (xit) and the inputs in = [dop100, az, el, pos].
\* sampled is FALSE when predict.observe raises inside Doppler_Shifts: the
\* call ends there, after self.fup has been assigned.
\* done is FALSE when the call ends in an exception (no sample, or
\* ctrl.frqB unassigned when the labels are filled in).
TrackFreqs(Force, tr, vf, fd, r, x, in) ==
    LET t    == TranspRec(tr)
        fu   == UplinkFreq(t, fd)
        ds   == Doppler_Shifts(in.dop100, fd, fu)
        send == in.ok /\ Transmit(rig_engaged, Force)
        fB   == IF Len(vf) > 1 THEN <<Commanded(fu, ds.fdop2, x)>> ELSE frqB
        fA   == Commanded(fd, ds.fdop1, r)
        bp   == NewPos(in.az, in.el, track_az)
        np   == FlipPos(bp, flipper)
        mv   == rotor_active /\ RotorError(in.pos, np) /\ send
        wr   == (IF Len(vf) > 1 /\ send THEN {"set_freq_up"} ELSE {})
                \cup (IF send THEN {"set_freq_dn"} ELSE {})
                \cup (IF send /\ USE_SDR THEN {"set_freq_sdr"} ELSE {})
                \cup (IF mv THEN {"set_position"} ELSE {})
                \cup (IF in.ok THEN {"recorder"} ELSE {})
    IN  [ ran |-> TRUE, sampled |-> in.ok, Force |-> Force,
          engaged |-> rig_engaged,
          dop100 |-> in.dop100, az |-> in.az, el |-> in.el,
          df |-> RatSub(fd, FromInt(t.fdn1)), fdown |-> fd, fup |-> fu,
          fdop1 |-> ds.fdop1, fdop2 |-> ds.fdop2, frqA |-> fA, frqB |-> fB,
          pos |-> IF rotor_active THEN in.pos ELSE Unset,
          base_pos |-> bp, new_pos |-> np, rotor_updated |-> mv, wr |-> wr,
          done |-> in.ok /\ fB # Unset, raised |-> ~(in.ok /\ fB # Unset) ]

\* the row track_freqs appends to the log (the fields the checks read)
LogRow(R) ==
    [ Selected |-> Selected, rig_engaged |-> rig_engaged,
      rotor_updated |-> R.rotor_updated ]

\* the assignments and device effects of one track_freqs call; fA0 is
\* ctrl.frqA when the call starts
ApplyRun(R, fA0) ==
    /\ Len(fp_log) < MaxLog
    /\ fup' = R.fup
    /\ fdop1' = IF R.sampled THEN R.fdop1 ELSE fdop1
    /\ frqA' = IF R.sampled THEN R.frqA ELSE fA0
    /\ frqB' = IF R.sampled THEN R.frqB ELSE frqB
    /\ radioA' = IF "set_freq_dn" \in R.wr THEN R.frqA ELSE radioA
    /\ rotorCmd' = IF R.rotor_updated THEN R.new_pos ELSE rotorCmd
    /\ fp_log' = IF R.done THEN Append(fp_log, LogRow(R)) ELSE fp_log

\* an exception that leaves a Qt slot: PyQt either aborts the process or
\* prints the traceback and goes on, depending on its version
Unhandled(ok) ==
    phase' \in IF ok THEN {phase} ELSE {phase, "dead"}

\* ------------------------------------------------------ the AOS/LOS indicator
DigitChars == <<"0", "1", "2", "3", "4", "5", "6", "7", "8", "9">>

\* str(n) for n >= 0
RECURSIVE Digits(_)
Digits(n) ==
    IF n < 10 THEN <<DigitChars[n + 1]>>
    ELSE Append(Digits(n \div 10), DigitChars[(n % 10) + 1])

\* "{:02d}".format(n) for n >= 0
Fmt02(n) == IF n < 10 THEN <<"0">> \o Digits(n) ELSE Digits(n)

\* RigControl.hms(dt), dt a rational
hms(dt) ==
    LET hrs  == RatInt(RatDiv(dt, <<3600, 1>>))
        dt2  == RatSub(dt, FromInt(3600 * hrs))
        mins == RatInt(RatDiv(dt2, <<60, 1>>))
        secs == RatInt(RatSub(dt2, FromInt(60 * mins)))
    IN  Fmt02(hrs) \o <<":">> \o Fmt02(mins) \o <<":">> \o Fmt02(secs)

\* the text update_aos_los puts into gui.txt9 at clock reading now
AosLosText(a, l, now) ==
    LET daos == RatSub(a, FromInt(now))
        dlos == RatSub(l, FromInt(now))
    IN  IF daos[1] > 0 THEN [label |-> "AOS in", hms |-> hms(daos)]
        ELSE IF dlos[1] > 0 THEN [label |-> "LOS in", hms |-> hms(dlos)]
        ELSE [label |-> "Past Event", hms |-> <<>>]

\* RigControl.update_aos_los, the last statement of Updater: reached when
\* nothing before it raised
update_aos_los(reached, now) ==
    txt9' = IF reached THEN AosLosText(aos, los, now) ELSE txt9

\* RigControl.set_rig_mode(mode): the modes of both VFOs and the commands
SetRigMode(mode, vf, t) ==
    LET two == Len(vf) > 1
        rev == CASE mode = "USB" -> "LSB"
                 [] mode = "LSB" -> "USB"
                 [] mode = "CW" -> "CW-R"
                 [] mode = "CW-R" -> "CW"
                 [] OTHER -> "None"
        upw == two /\ (t.Inverting => rev # "None")
    IN  [ dn |-> mode,
          up |-> IF upw THEN (IF t.Inverting THEN rev ELSE mode) ELSE modeUp,
          wr |-> {"set_mode_dn"} \cup (IF upw THEN {"set_mode_up"} ELSE {}) ]

\* ---------------------------------------------------------------- actions
PlotSkyTrack_KeepsEngaged(p) ==
    /\ Selected' = p[1]
    /\ New_Sat_Selection' = TRUE
    /\ track_az' = p[2]
    /\ aos' = p[3]
    /\ los' = p[4]
    /\ flipper' = FlipDecision(p[2])
    /\ writes' = {}
    /\ run' = NoRun
    /\ UNCHANGED <<rig_engaged, rit, xit, mode_cb, txt9, ctrlVars, cfgVars, hwVars>>

\* plot_sky_track(gui, sat, ttt) for the pass p = <<sat, azimuths of the sky
\* track, transit.start, transit.end>>
PlotSkyTrack(p) ==
    /\ Selected' = p[1]
    /\ New_Sat_Selection' = TRUE
    /\ rig_engaged' = FALSE
    /\ track_az' = p[2]
    /\ aos' = p[3]
    /\ los' = p[4]
    /\ flipper' = FlipDecision(p[2])
    /\ writes' = {}
    /\ run' = NoRun
    /\ UNCHANGED <<rit, xit, mode_cb, txt9, ctrlVars, cfgVars, hwVars>>

\* an operator command: counted against the bound
Command(name) ==
    /\ phase = "running"
    /\ cmds < MaxCmds
    /\ cmds' = cmds + 1
    /\ op' = name

\* __main__: the pass selected before the event loop starts
StartupSelect(P) ==
    /\ phase = "startup"
    /\ \E p \in P : PlotSkyTrack(p)
    /\ phase' = "running"
    /\ op' = "startup"
    /\ UNCHANGED cmds

\* MouseClick: the operator selects a pass
SelectSatellite(P) ==
    /\ Command("select")
    /\ \E p \in P : PlotSkyTrack(p)
    /\ UNCHANGED phase

\* Updater, new-selection branch. Without a main transponder the lookup
\* transponders[None] raises right after self.satellite is assigned.
\* nested: the handlers the tick runs through a signal, here ModeSelect
\* through currentIndexChanged when setCurrentIndex changes the index.
Acquire(in, swap, now) ==
  IF Satellites[Selected].main = "None"
  THEN /\ satellite' = Selected
       /\ writes' = {}
       /\ run' = Raised @@ [now |-> now]
       /\ Unhandled(FALSE)
       /\ update_aos_los(FALSE, now)
       /\ UNCHANGED <<guiVars, transp, vfos, fdown, fdop1, fup, frqA, frqB,
                      fp_log, hwVars>>
  ELSE
    LET tr == <<Selected, Satellites[Selected].main>>
        t  == TranspRec(tr)
        vf == CASE rig_type2 = "FT991a" -> <<"A", "B">>
                [] rig_type2 = "IC9700" -> <<"M", "S">>
                [] rig_type2 = "pySDR" -> <<"A">>
                [] OTHER -> <<"A", "B">>
        w1 == CASE rig_type2 = "FT991a" -> {"split_mode"}
                [] rig_type2 = "IC9700" ->
                     {"sat_mode"} \cup (IF swap THEN {"select_vfo"} ELSE {})
                [] OTHER -> {}
        m  == SetRigMode(t.mode, vf, t)
        fd == Center(t)
        R  == TrackFreqs(FALSE, tr, vf, fd, rit, xit, in)
    IN  /\ satellite' = Selected
        /\ transp' = tr
        /\ vfos' = vf
        /\ modeDn' = m.dn
        /\ modeUp' = m.up
        /\ mode_cb' = t.mode
        /\ fdown' = fd
        /\ ApplyRun(R, frqA)
        /\ run' = R @@ [path |-> "acquire", frq |-> 0, retuned |-> FALSE,
                        nested |-> IF t.mode # mode_cb THEN <<"ModeSelect">>
                                   ELSE <<>>,
                        now |-> now]
        /\ writes' = w1 \cup m.wr \cup R.wr
        /\ New_Sat_Selection' = ~R.done
        /\ Unhandled(R.done)
        /\ update_aos_los(R.done, now)
        /\ UNCHANGED <<Selected, flipper, rit, xit, rig_engaged, track_az,
                       aos, los>>

Rebase_KeepsDoppler(frq, dop) == FromInt(frq)

\* the downlink reference after the operator moved the dial to frq
Rebase(frq, dop) == RatSub(FromInt(frq), dop)

Retuned_AnyReading(frq, fA) == frq > 0

\* the manual-retune test: the radio reports a frequency other than the one
\* the tracker computed last
Retuned(frq, fA) == frq > 0 /\ frq # fA

\* Updater, steady-state branch: manual-retune check, then the tracker
Reconcile(in, now) ==
    LET frq    == radioA
        retune == Retuned(frq, frqA)
        fd     == IF retune THEN Rebase(frq, fdop1) ELSE fdown
        R      == TrackFreqs(FALSE, transp, vfos, fd, rit, xit, in)
    IN  /\ fdown' = fd
        /\ ApplyRun(R, IF retune THEN frq ELSE frqA)
        /\ run' = R @@ [path |-> "reconcile", frq |-> frq, retuned |-> retune,
                        nested |-> <<>>, now |-> now]
        /\ writes' = R.wr
        /\ Unhandled(R.done)
        /\ update_aos_los(R.done, now)
        /\ UNCHANGED <<guiVars, satellite, transp, vfos, modeDn, modeUp>>

\* RigControl.Updater: the timer tick, with the propagator and rotor inputs
\* I and the clock readings T. The timer also fires inside the event loop
\* of the message box that ToggleRigControl opens.
Updater(I, T) ==
    /\ phase \in {"running", "dialog"}
    /\ op' = "tick"
    /\ UNCHANGED <<cfgVars, cmds>>
    /\ \E now \in T :
         IF (rig_engaged \/ fdown = Unset) /\ Selected # "None"
         THEN IF New_Sat_Selection
              THEN \E in \in I, swap \in BOOLEAN : Acquire(in, swap, now)
              ELSE \E in \in I : Reconcile(in, now)
         ELSE /\ writes' = {}
              /\ run' = NoRun @@ [now |-> now]
              /\ update_aos_los(TRUE, now)
              /\ UNCHANGED <<phase, guiVars, ctrlVars, hwVars>>

\* ctrl.track_freqs(True) as called by the operator handlers, after the
\* handler has set rit to r and xit to x
Forced(r, x, in) ==
    IF transp = Unset
    THEN /\ writes' = {}
         /\ run' = Raised
         /\ Unhandled(FALSE)
         /\ UNCHANGED <<ctrlVars, hwVars>>
    ELSE LET R == TrackFreqs(TRUE, transp, vfos, fdown, r, x, in)
         IN  /\ ApplyRun(R, frqA)
             /\ run' = R @@ [path |-> "forced", frq |-> 0, retuned |-> FALSE,
                             nested |-> <<>>]
             /\ writes' = R.wr
             /\ Unhandled(R.done)
             /\ UNCHANGED <<satellite, transp, vfos, fdown, modeDn, modeUp>>

Tune(name, r, x, I) ==
    /\ Command(name)
    /\ rit' = r
    /\ xit' = x
    /\ \E in \in I : Forced(r, x, in)
    /\ UNCHANGED <<Selected, New_Sat_Selection, flipper, rig_engaged, track_az,
                   aos, los, mode_cb, txt9, cfgVars>>

RITup(I) == Tune("RITup", rit + RIT_DELTA, xit, I)
RITdn(I) == Tune("RITdn", rit - RIT_DELTA, xit, I)
XITup(I) == Tune("XITup", rit, xit + XIT_DELTA, I)
XITdn(I) == Tune("XITdn", rit, xit - XIT_DELTA, I)

RITclear ==
    /\ Command("RITclear")
    /\ rit' = 0
    /\ writes' = {}
    /\ run' = NoRun
    /\ UNCHANGED <<phase, Selected, New_Sat_Selection, flipper, xit, rig_engaged,
                   track_az, aos, los, mode_cb, txt9, ctrlVars, cfgVars, hwVars>>

XITclear ==
    /\ Command("XITclear")
    /\ xit' = 0
    /\ writes' = {}
    /\ run' = NoRun
    /\ UNCHANGED <<phase, Selected, New_Sat_Selection, flipper, rit, rig_engaged,
                   track_az, aos, los, mode_cb, txt9, ctrlVars, cfgVars, hwVars>>

ReCenter_Uncaught(I) ==
    /\ Command("ReCenter")
    /\ UNCHANGED <<guiVars, txt9, cfgVars>>
    /\ IF transp = Unset
       THEN /\ writes' = {}
            /\ run' = Raised
            /\ Unhandled(FALSE)
            /\ UNCHANGED <<ctrlVars, hwVars>>
       ELSE \E in \in I :
              LET fd == Center(TranspRec(transp))
                  R  == TrackFreqs(TRUE, transp, vfos, fd, rit, xit, in)
              IN  /\ fdown' = fd
                  /\ ApplyRun(R, frqA)
                  /\ run' = R @@ [path |-> "forced", frq |-> 0, retuned |-> FALSE,
                                  nested |-> <<>>]
                  /\ writes' = R.wr
                  /\ Unhandled(R.done)
                  /\ UNCHANGED <<satellite, transp, vfos, modeDn, modeUp>>

\* SAT_GUI.ReCenter: any exception is caught by the handler
ReCenter(I) ==
    /\ Command("ReCenter")
    /\ UNCHANGED <<phase, guiVars, txt9, cfgVars>>
    /\ IF transp = Unset
       THEN /\ writes' = {}
            /\ run' = NoRun
            /\ UNCHANGED <<ctrlVars, hwVars>>
       ELSE \E in \in I :
              LET fd == Center(TranspRec(transp))
                  R  == TrackFreqs(TRUE, transp, vfos, fd, rit, xit, in)
              IN  /\ fdown' = fd
                  /\ ApplyRun(R, frqA)
                  /\ run' = R @@ [path |-> "forced", frq |-> 0, retuned |-> FALSE,
                                  nested |-> <<>>]
                  /\ writes' = R.wr
                  /\ UNCHANGED <<satellite, transp, vfos, modeDn, modeUp>>

ToggleRigControl_ClearsFlip ==
    /\ Command("toggle")
    /\ rig_engaged' = IF Selected # "None" THEN ~rig_engaged ELSE rig_engaged
    /\ flipper' = (flipper /\ rig_engaged')
    /\ writes' = {"split_mode"}
    /\ run' = NoRun
    /\ phase' = IF rig_engaged' /\ rig_type2 = "IC9700" THEN "dialog" ELSE phase
    /\ UNCHANGED <<Selected, New_Sat_Selection, rit, xit, track_az, aos, los,
                   mode_cb, txt9, ctrlVars, cfgVars, hwVars>>

ToggleEngaged_Unguarded(sel, eng) == ~eng

\* gui.rig_engaged after ToggleRigControl: flipped if a satellite is selected
ToggleEngaged(sel, eng) == IF sel # "None" THEN ~eng ELSE eng

\* SAT_GUI.ToggleRigControl up to the reminder: engaging an IC9700 opens a
\* message box and waits in msgBox.exec()
ToggleRigControl ==
    /\ Command("toggle")
    /\ rig_engaged' = ToggleEngaged(Selected, rig_engaged)
    /\ writes' = {"split_mode"}
    /\ run' = NoRun
    /\ phase' = IF rig_engaged' /\ rig_type2 = "IC9700" THEN "dialog" ELSE phase
    /\ UNCHANGED <<Selected, New_Sat_Selection, flipper, rit, xit, track_az,
                   aos, los, mode_cb, txt9, ctrlVars, cfgVars, hwVars>>

\* the operator closes the message box: msgBox.exec() returns and
\* ToggleRigControl ends
DialogOk ==
    /\ phase = "dialog"
    /\ phase' = "running"
    /\ op' = "dialog_ok"
    /\ writes' = {}
    /\ run' = NoRun
    /\ UNCHANGED <<guiVars, txt9, ctrlVars, cfgVars, hwVars, cmds>>

\* SAT_GUI.ModeSelect: the operator picks another mode in the combo box
ModeSelect ==
    /\ Command("ModeSelect")
    /\ run' = IF vfos = Unset THEN Raised ELSE NoRun
    /\ \E i \in 1..Len(MODES) :
         /\ MODES[i] # mode_cb
         /\ mode_cb' = MODES[i]
         /\ IF vfos = Unset
            THEN /\ writes' = {}
                 /\ Unhandled(FALSE)
                 /\ UNCHANGED <<modeDn, modeUp>>
            ELSE LET m == SetRigMode(MODES[i], vfos, TranspRec(transp))
                 IN  /\ modeDn' = m.dn
                     /\ modeUp' = m.up
                     /\ writes' = m.wr
                     /\ UNCHANGED phase
    /\ UNCHANGED <<Selected, New_Sat_Selection, flipper, rit, xit, rig_engaged,
                   track_az, aos, los, txt9, ctrlVars, cfgVars, radioA, rotorCmd>>

\* the operator turns the radio's main dial
DialSpin ==
    /\ Command("dial")
    /\ \E d \in DialSteps : radioA' = radioA + d
    /\ writes' = {}
    /\ run' = NoRun
    /\ UNCHANGED <<phase, guiVars, txt9, ctrlVars, cfgVars, rotorCmd, modeDn,
                   modeUp>>

\* the operator commands that call no tracker
Commands ==
    \/ SelectSatellite(Passes)
    \/ ToggleRigControl
    \/ ModeSelect
    \/ RITclear
    \/ XITclear
    \/ DialSpin
    \/ DialogOk

Next ==
    \/ StartupSelect(Passes)
    \/ Commands
    \/ Updater(FreqInputs, CalmClock)
    \/ ReCenter(FreqInputs)
    \/ RITup(FreqInputs)
    \/ RITdn(FreqInputs)
    \/ XITup(FreqInputs)
    \/ XITdn(FreqInputs)

Spec == Init /\ [][Next]_vars

NextRotor ==
    \/ StartupSelect(Passes)
    \/ Commands
    \/ Updater(RotorInputs, CalmClock)
    \/ ReCenter(CalmInputs)
    \/ RITup(CalmInputs)
    \/ RITdn(CalmInputs)
    \/ XITup(CalmInputs)
    \/ XITdn(CalmInputs)

SpecRotor == Init /\ [][NextRotor]_vars

\* ------------------------------------- the engage button before a selection
\* ToggleRigControl applied to the GUI as SAT_GUI.__init__ leaves it, with
\* gui.Selected = None. __main__ selects a pass before app.exec_() starts
\* to dispatch events, so the program itself calls the handler only after
\* a selection; this action exercises the handler's guard on its own.
ToggleAtStartup ==
    /\ phase = "startup"
    /\ cmds < MaxCmds
    /\ cmds' = cmds + 1
    /\ op' = "toggle"
    /\ rig_engaged' = ToggleEngaged(Selected, rig_engaged)
    /\ writes' = {"split_mode"}
    /\ run' = NoRun
    /\ phase' = IF rig_engaged' /\ rig_type2 = "IC9700" THEN "dialog" ELSE phase
    /\ UNCHANGED <<Selected, New_Sat_Selection, flipper, rit, xit, track_az,
                   aos, los, mode_cb, txt9, ctrlVars, cfgVars, hwVars>>

NextEngage ==
    \/ ToggleAtStartup
    \/ StartupSelect(Passes)
    \/ Commands
    \/ Updater(CalmInputs, CalmClock)

SpecEngage == Init /\ [][NextEngage]_vars

\* ------------------------------------------- ticks at varying clock readings
NextClock ==
    \/ StartupSelect(Passes)
    \/ ToggleRigControl
    \/ DialogOk
    \/ Updater(CalmInputs, ClockSamples)

SpecClock == Init /\ [][NextClock]_vars

\* ---------- a satellite without main transponder, calls without a sample
NextFaults ==
    \/ StartupSelect(PassesNoMain)
    \/ SelectSatellite(PassesNoMain)
    \/ ToggleRigControl
    \/ DialogOk
    \/ DialSpin
    \/ Updater(StaleInputs, CalmClock)
    \/ RITup(StaleInputs)
    \/ ReCenter(StaleInputs)

SpecFaults == Init /\ [][NextFaults]_vars

\* --------------------------------------------- the flip test on any track
AzSamples == {90, 100, 170, 180, 190, 260, 270}

RECURSIVE TracksOfLen(_)
TracksOfLen(n) ==
    IF n = 0 THEN { <<>> }
    ELSE { Append(t, a) : t \in TracksOfLen(n - 1), a \in AzSamples }

AllTracks == UNION { TracksOfLen(n) : n \in 1..MaxTrackLen }

AllPasses == { <<"AO-91", tk, <<1000, 1>>, <<1600, 1>> >> : tk \in AllTracks }

NextFlip ==
    \/ StartupSelect(AllPasses)
    \/ SelectSatellite(Passes \cup { <<Selected, track_az, aos, los>> })

SpecFlip == Init /\ [][NextFlip]_vars

\* ------------------------------------- Doppler_Shifts on sampled arguments
FreqSamples == { <<n, d>> : n \in {1001, 1003, 2041}, d \in {1, 2, 20} }
DopSamples == {-10000000, -2500, 0, 2500, 10000000}

Twice(x) == RatMul(<<2, 1>>, x)

\* the shifts at (fd, fu) and at twice these frequencies
DopplerStep ==
    /\ op = "init"
    /\ op' = "doppler"
    /\ \E d \in DopSamples, fd \in FreqSamples, fu \in FreqSamples :
         run' = [ ran |-> FALSE, dop100 |-> d, fd |-> fd, fu |-> fu,
                  at1 |-> Doppler_Shifts(d, fd, fu),
                  at2 |-> Doppler_Shifts(d, Twice(fd), Twice(fu)) ]
    /\ UNCHANGED <<phase, guiVars, txt9, ctrlVars, cfgVars, hwVars, writes, cmds>>

SpecDoppler == Init /\ [][DopplerStep]_vars

\* --------------------------------- the rotor target on sampled positions
\* obs['azimuth'] in [0, 360) and obs['elevation'] in [-90, 90]
TargetAz == {0, 1, 90, 179, 180, 181, 270, 359}
TargetEl == {-90, -45, -1, 0, 1, 45, 89, 90}

\* the rotor target of track_freqs for the position (az, el), the first
\* azimuth a0 of the sky track and either value of gui.flipper
TargetStep ==
    /\ op = "init"
    /\ op' = "target"
    /\ \E az \in TargetAz, el \in TargetEl, a0 \in TargetAz, flip \in BOOLEAN :
         LET bp == NewPos(az, el, <<a0>>)
         IN  run' = [ ran |-> FALSE, az |-> az, el |-> el, a0 |-> a0,
                      flipper |-> flip, base_pos |-> bp,
                      new_pos |-> FlipPos(bp, flip) ]
    /\ UNCHANGED <<phase, guiVars, txt9, ctrlVars, cfgVars, hwVars, writes, cmds>>

SpecTarget == Init /\ [][TargetStep]_vars

\* ------------------------------------ get_transponders: the main transponder
\* Names are tuples of characters, so that str.upper(), "in" and "==" are
\* computed as Python computes them.
Lowers ==
    <<"a", "b", "c", "d", "e", "f", "g", "h", "i", "j", "k", "l", "m",
      "n", "o", "p", "q", "r", "s", "t", "u", "v", "w", "x", "y", "z">>
Uppers ==
    <<"A", "B", "C", "D", "E", "F", "G", "H", "I", "J", "K", "L", "M",
      "N", "O", "P", "Q", "R", "S", "T", "U", "V", "W", "X", "Y", "Z">>

\* str.upper() of one character
UpperChar(c) ==
    IF \E i \in 1..Len(Lowers) : Lowers[i] = c
    THEN Uppers[CHOOSE i \in 1..Len(Lowers) : Lowers[i] = c]
    ELSE c

\* transp.upper()
Upper(s) == [i \in 1..Len(s) |-> UpperChar(s[i])]

\* sub in s
Contains(sub, s) ==
    \E i \in 1..(Len(s) - Len(sub) + 1) : SubSeq(s, i, i + Len(sub) - 1) = sub

\* the literals of the test
\* "PE0SAT"
PE0SAT ==
    <<"P", "E", "0", "S", "A", "T">>
\* "L/V"
L_V ==
    <<"L", "/", "V">>
\* "FM VOICE"
FM_VOICE ==
    <<"F", "M", " ", "V", "O", "I", "C", "E">>
\* "MODE U/V (B) LIN"
MODE_UV_B_LIN ==
    <<"M", "O", "D", "E", " ", "U", "/", "V", " ", "(", "B", ")", " ", "L",
    "I", "N">>
\* "MODE U/V LINEAR"
MODE_UV_LINEAR ==
    <<"M", "O", "D", "E", " ", "U", "/", "V", " ", "L", "I", "N", "E", "A",
    "R">>
\* "MODE V/U FM"
MODE_VU_FM ==
    <<"M", "O", "D", "E", " ", "V", "/", "U", " ", "F", "M">>
\* "TRANSPONDER"
TRANSPONDER ==
    <<"T", "R", "A", "N", "S", "P", "O", "N", "D", "E", "R">>
\* "TRANSPODER"
TRANSPODER ==
    <<"T", "R", "A", "N", "S", "P", "O", "D", "E", "R">>

Excluded_OnlyBeacon(t2) == Contains(PE0SAT, t2)

\* ('PE0SAT' in transp2) or ('L/V' in transp2)
Excluded(t2) == Contains(PE0SAT, t2) \/ Contains(L_V, t2)

\* the elif condition
Matches(t2) ==
    \/ Contains(FM_VOICE, t2)
    \/ t2 = MODE_UV_B_LIN
    \/ t2 = MODE_UV_LINEAR
    \/ t2 = MODE_VU_FM
    \/ Contains(TRANSPONDER, t2)
    \/ Contains(TRANSPODER, t2)

\* the loop over config.sections(): self.main and the number of warnings
RECURSIVE MainLoop(_, _, _, _)
MainLoop(names, i, main, warnings) ==
    IF i > Len(names) THEN [main |-> main, warnings |-> warnings]
    ELSE LET transp2 == Upper(names[i])
         IN  IF Excluded(transp2) THEN MainLoop(names, i + 1, main, warnings)
             ELSE IF Matches(transp2)
                  THEN IF main = Unset
                       THEN MainLoop(names, i + 1, names[i], warnings)
                       ELSE MainLoop(names, i + 1, main, warnings + 1)
                  ELSE MainLoop(names, i + 1, main, warnings)

\* get_transponders: self.main starts as None
GetMain(names) == MainLoop(names, 1, Unset, 0)

\* section names of the transponder files tried
\* "Mode U/V FM Voice"
N_FMVoice ==
    <<"M", "o", "d", "e", " ", "U", "/", "V", " ", "F", "M", " ", "V", "o",
    "i", "c", "e">>
\* "Mode V/U FM"
N_VUFM ==
    <<"M", "o", "d", "e", " ", "V", "/", "U", " ", "F", "M">>
\* "Mode V/U FM Beacon"
N_VUFMBeacon ==
    <<"M", "o", "d", "e", " ", "V", "/", "U", " ", "F", "M", " ", "B", "e",
    "a", "c", "o", "n">>
\* "PE0SAT FM Voice"
N_PE0SAT ==
    <<"P", "E", "0", "S", "A", "T", " ", "F", "M", " ", "V", "o", "i", "c",
    "e">>
\* "Mode L/V Transponder"
N_LV ==
    <<"M", "o", "d", "e", " ", "L", "/", "V", " ", "T", "r", "a", "n", "s",
    "p", "o", "n", "d", "e", "r">>
\* "Linear transpoder"
N_Transpoder ==
    <<"L", "i", "n", "e", "a", "r", " ", "t", "r", "a", "n", "s", "p", "o",
    "d", "e", "r">>
\* "mode u/v linear"
N_UVLinear ==
    <<"m", "o", "d", "e", " ", "u", "/", "v", " ", "l", "i", "n", "e", "a",
    "r">>
\* "Telemetry"
N_Telemetry ==
    <<"T", "e", "l", "e", "m", "e", "t", "r", "y">>
\* "Mode V/U Linear Transponder"
N_Linear ==
    <<"M", "o", "d", "e", " ", "V", "/", "U", " ", "L", "i", "n", "e", "a",
    "r", " ", "T", "r", "a", "n", "s", "p", "o", "n", "d", "e", "r">>

NamePool ==
    { N_FMVoice, N_VUFM, N_VUFMBeacon, N_PE0SAT, N_LV, N_Transpoder,
      N_UVLinear, N_Telemetry, N_Linear }

\* the files: up to MaxTransponders sections with distinct names, in order
RECURSIVE SectionsOfLen(_)
SectionsOfLen(n) ==
    IF n = 0 THEN { <<>> }
    ELSE { Append(s, x) : s \in SectionsOfLen(n - 1), x \in NamePool }

Distinct(s) == \A i, j \in 1..Len(s) : i # j => s[i] # s[j]

AllSections ==
    { s \in UNION { SectionsOfLen(n) : n \in 0..MaxTransponders } : Distinct(s) }

\* get_transponders on one file
MainStep ==
    /\ op = "init"
    /\ op' = "main"
    /\ \E names \in AllSections :
         LET r == GetMain(names)
         IN  run' = [ ran |-> FALSE, names |-> names, main |-> r.main,
                      warnings |-> r.warnings ]
    /\ UNCHANGED <<phase, guiVars, txt9, ctrlVars, cfgVars, hwVars, writes, cmds>>

SpecMain == Init /\ [][MainStep]_vars

\* --------------------------------------- __main__: opening the connections
\* <<P.connection, P.sock.active>>: the radio
RigLinks ==
    { <<"ANY", TRUE>>, <<"ANY", FALSE>>, <<"HAMLIB", TRUE>>, <<"HAMLIB", FALSE>>,
      <<"NONE", FALSE>> }

\* <<P.sock2.connection, P.sock2.active>>: the rotor
RotorLinks == { <<"HAMLIB", TRUE>>, <<"HAMLIB", FALSE>>, <<"NONE", FALSE>> }

\* <<P.USE_SDR, P.sock3.active>>: the SDR
SdrLinks == { <<FALSE, FALSE>>, <<TRUE, TRUE>>, <<TRUE, FALSE>> }

\* TRUE when __main__ gets past both sys.exit(0) of the connection checks
\* and goes on to RigControl(P, gui, 1), which starts the timer
StartsLoop(rig, rotor, sdr) ==
    LET rotorExit == ~rotor[2] /\ rotor[1] # "NONE"
        sdrExit   == sdr[1] /\ ~sdr[2]
    IN  ~rotorExit /\ ~sdrExit

\* __main__ from open_rig_connection to the creation of the timer
MainConnect ==
    /\ op = "init"
    /\ op' = "connect"
    /\ \E rig \in RigLinks, rotor \in RotorLinks, sdr \in SdrLinks :
         run' = [ ran |-> FALSE, rig |-> rig, rotor |-> rotor, sdr |-> sdr,
                  timer |-> StartsLoop(rig, rotor, sdr) ]
    /\ UNCHANGED <<phase, guiVars, txt9, ctrlVars, cfgVars, hwVars, writes, cmds>>

SpecConnect == Init /\ [][MainConnect]_vars

\* ================================================================ claims
FreqRotorCmds == {"set_freq_dn", "set_freq_up", "set_freq_sdr", "set_position"}

\* C1: set_frequency (downlink VFO, uplink VFO, SDR) and set_rotor_position
\* are issued only by a tracker call made with engaged true or with Force;
\* a timer tick with engaged false writes no frequency and no rotor position.
C1_WritesGated ==
    /\ (writes \cap FreqRotorCmds # {}) => (run.ran /\ (run.engaged \/ run.Force))
    /\ (op = "tick" /\ ~rig_engaged) => (writes \cap FreqRotorCmds = {})

\* a disengaged tick ran the tracker with rotor and SDR present and a
\* pointing error above the threshold, and wrote nothing
C1_Witness ==
    /\ op = "tick" /\ run.ran /\ ~run.engaged /\ ~run.Force
    /\ rotor_active /\ USE_SDR
    /\ Abs(run.pos[1] - run.new_pos[1]) > 10
    /\ writes \cap FreqRotorCmds = {}

\* C2 (as stated): right after select_satellite the transponder is the main
\* transponder of the selected satellite, the reference downlink is its
\* passband centre, the acquisition is over and flip_required is the flip
\* test of the pass's sky track.
C2_SelectAcquiresAtOnce ==
    (op \in {"select", "startup"}) =>
        /\ transp = <<Selected, Satellites[Selected].main>>
        /\ fdown = Center(TranspRec(<<Selected, Satellites[Selected].main>>))
        /\ ~New_Sat_Selection
        /\ flipper = FlipDecision(track_az)

C4_UplinkMapping ==
    (fup # Unset) =>
        LET t == TranspRec(transp)
        IN  IF t.Inverting
            THEN RatAdd(fup, fdown) = FromInt(t.fup2 + t.fdn1)
            ELSE RatSub(fup, FromInt(t.fup1)) = RatSub(fdown, FromInt(t.fdn1))

\* an inverting transponder tracked away from its passband centre
C4_Witness ==
    /\ fup # Unset /\ run.ran
    /\ TranspRec(transp).Inverting
    /\ fdown # Center(TranspRec(transp))

\* x truncated toward zero is n
TruncatesTo(x, n) ==
    IF x[1] >= 0 THEN n * x[2] <= x[1] /\ x[1] < (n + 1) * x[2]
    ELSE n * x[2] >= x[1] /\ x[1] > (n - 1) * x[2]

\* C5: after a tracker run the commanded downlink is the integer part of
\* reference + downlink Doppler + rit and, on a rig with an uplink VFO, the
\* commanded uplink is the integer part of uplink + uplink Doppler + xit,
\* with the rit and xit current at the run.
C5_Commanded ==
    run.ran =>
        /\ TruncatesTo(RatAdd(RatAdd(fdown, fdop1), FromInt(rit)), frqA)
        /\ Len(vfos) > 1 =>
             /\ frqB # Unset
             /\ TruncatesTo(RatAdd(RatAdd(fup, run.fdop2), FromInt(xit)), frqB[1])

\* a run with both offsets set and a fractional downlink sum
C5_Witness ==
    /\ run.ran /\ rit # 0 /\ xit # 0 /\ Len(vfos) > 1
    /\ RatAdd(fdown, fdop1)[2] # 1

Sign(x) == IF x[1] > 0 THEN 1 ELSE IF x[1] < 0 THEN -1 ELSE 0

\* C6: the downlink shift is dop100 * 1e-8 * f_down, the shift at 2f is twice
\* the shift at f, and the uplink shift is -(dop100 * 1e-8 * f_up): of
\* opposite sign to the downlink shift whenever dop100 is not zero.
C6_DopplerScaling ==
    (op = "doppler") =>
        /\ RatDiv(run.at1.fdop1, run.fd) = Norm(run.dop100, DopplerDen)
        /\ RatDiv(run.at1.fdop2, run.fu) = Norm(-run.dop100, DopplerDen)
        /\ run.at2.fdop1 = RatAdd(run.at1.fdop1, run.at1.fdop1)
        /\ run.at2.fdop2 = RatAdd(run.at1.fdop2, run.at1.fdop2)
        /\ (run.dop100 # 0) => Sign(run.at1.fdop1) = -Sign(run.at1.fdop2)
        /\ (run.dop100 # 0) => Sign(run.at1.fdop1) # 0

\* shifts computed for a non-zero dop100 at a fractional frequency
C6_Witness ==
    /\ op = "doppler" /\ run.dop100 = -2500 /\ run.fd[2] # 1
    /\ run.at1.fdop1[1] < 0 /\ run.at1.fdop2[1] > 0

Q2(az) == { az[i] : i \in { j \in 1..Len(az) : az[j] > 90 /\ az[j] < 180 } }
Q3(az) == { az[i] : i \in { j \in 1..Len(az) : az[j] > 180 /\ az[j] < 270 } }

\* C7: flip_required is true iff the track has a sample with 90 < az < 180
\* and one with 180 < az < 270 and neither every quadrant-3 azimuth is below
\* 195 nor every quadrant-2 azimuth is above 165; it is a function of the
\* sky track alone.
C7_FlipDecision ==
    (Selected # "None") =>
        (flipper <=>
            /\ Q2(track_az) # {} /\ Q3(track_az) # {}
            /\ ~(\A a \in Q3(track_az) : a < 195)
            /\ ~(\A a \in Q2(track_az) : a > 165))

\* a re-selected track through both quadrants that stays close to 180
C7_Witness ==
    /\ op = "select" /\ ~flipper
    /\ Q2(track_az) # {} /\ Q3(track_az) # {}
    /\ \E a \in Q3(track_az) : a >= 195

\* C8: flip_required changes only in select_satellite: ticks, engage
\* toggling, RIT/XIT changes, re-centre and mode selection leave it as it is.
C8_FlipHeld ==
    [][ (op' \notin {"select", "startup"}) => flipper' = flipper ]_vars

\* a tick ran the tracker on a flipped pass
C8_Witness == flipper /\ op = "tick" /\ run.ran /\ Len(fp_log) > 1

\* C9: with flip_required the rotor target is (az + 180, 180 - el) for
\* az < 180 and (az - 180, 180 - el) otherwise, (az, el) being the target
\* before the flip; without flip_required the target is (az, el).
C9_FlipMapping ==
    run.ran =>
        LET b == IF run.el >= 0 THEN <<run.az, run.el>> ELSE <<track_az[1], 0>>
        IN  run.new_pos =
              IF flipper
              THEN IF b[1] < 180 THEN <<b[1] + 180, 180 - b[2]>>
                   ELSE <<b[1] - 180, 180 - b[2]>>
              ELSE b

\* a flipped target for a satellite west of south
C9_Witness ==
    run.ran /\ flipper /\ run.az >= 180 /\ run.el > 0 /\ run.new_pos = <<20, 160>>

\* C10: on an engaged, unforced tick with the rotor connected a position
\* command is issued iff the azimuth or the elevation error exceeds 10
\* degrees: none for errors of (5, 3) or of exactly 10, one for 12.
C10_Hysteresis ==
    (op = "tick" /\ run.ran /\ run.engaged /\ ~run.Force /\ rotor_active) =>
        LET daz == run.pos[1] - run.new_pos[1]
            de  == run.pos[2] - run.new_pos[2]
            big == daz > 10 \/ daz < -10 \/ de > 10 \/ de < -10
        IN  /\ run.rotor_updated <=> big
            /\ ("set_position" \in writes) <=> big
            /\ big => rotorCmd = run.new_pos

\* an engaged tick with both errors at exactly 10 degrees and no command
C10_Witness ==
    /\ op = "tick" /\ run.ran /\ run.engaged /\ ~run.Force /\ rotor_active
    /\ run.pos[1] - run.new_pos[1] = 10 /\ run.pos[2] - run.new_pos[2] = 10
    /\ "set_position" \notin writes

\* C11 (as stated): a forced tracker call (RIT/XIT change, re-centre) with the
\* rotor connected issues a position command for the target, also when both
\* position errors are within the threshold.
C11_ForcedMovesRotor ==
    (run.ran /\ run.Force /\ rotor_active) =>
        ("set_position" \in writes /\ rotorCmd = run.new_pos)

\* a rotor target before the flip mapping, as track_freqs forms it
BaseTarget == IF run.el >= 0 THEN <<run.az, run.el>> ELSE <<track_az[1], 0>>

\* C12: the rotor target before the flip mapping is (azimuth of the first
\* sample of the stored sky track, 0) when the true elevation is negative and
\* the true (azimuth, elevation) when the elevation is >= 0.
C12_BelowHorizon ==
    run.ran =>
        /\ run.base_pos = BaseTarget
        /\ (~flipper) => run.new_pos = BaseTarget

\* an unflipped run below the horizon parks at the start of the track
C12_Witness ==
    /\ run.ran /\ run.el < 0 /\ ~flipper
    /\ run.az # track_az[1]
    /\ run.new_pos = <<track_az[1], 0>>

\* the commands a handler can send to the radio, the SDR and the rotor
HardwareCmds ==
    FreqRotorCmds \cup
    {"set_mode_dn", "set_mode_up", "split_mode", "sat_mode", "select_vfo"}

\* C13 (as stated): on every timer tick while disengaged after a satellite
\* has been acquired, the tracker still runs (Doppler and commanded
\* frequencies recomputed, a log row appended) and writes nothing to hardware.
C13_DisengagedTickLogs ==
    [][ (op' = "tick" /\ ~rig_engaged /\ ~New_Sat_Selection /\ fdown # Unset) =>
          /\ run'.ran
          /\ Len(fp_log') = Len(fp_log) + 1
          /\ writes' \cap HardwareCmds = {} ]_vars

\* C14 (as stated): a timer tick with engaged false, the acquisition tick
\* included, sends no set_frequency, set_mode, split/sat mode, VFO swap or
\* rotor position command.
C14_EngagedGatesAllWrites ==
    (op = "tick" /\ ~rig_engaged) => (writes \cap HardwareCmds = {})

\* C15 (as stated): the first timer tick after a selection performs the
\* acquisition for the selected satellite: main transponder, reference at the
\* passband centre, new-selection flag cleared.
C15_SelectRestartsAcquisition ==
    [][ (op \in {"select", "startup"} /\ op' = "tick" /\ rig_type2 # "pySDR") =>
          /\ satellite' = Selected
          /\ transp' = <<Selected, Satellites[Selected].main>>
          /\ fdown' = Center(TranspRec(transp'))
          /\ ~New_Sat_Selection' ]_vars

\* C16 (as stated): the first steady-state tick after the acquisition does no
\* manual-retune reconciliation: whatever the radio reports, the reference
\* stays at the passband centre the acquisition set.
C16_NoRetuneAfterAcquisition ==
    [][ (op' = "tick" /\ run'.ran /\ ~New_Sat_Selection /\ Len(fp_log) = 1) =>
          /\ ~run'.retuned
          /\ fdown' = Center(TranspRec(transp)) ]_vars

\* C17 (as stated): the radio held the commanded downlink and the operator
\* moved the dial by d; with the Doppler shift unchanged the next tick
\* commands exactly d more than it would have without the change, for any
\* rit and xit.
C17_RetuneShiftsCommanded ==
    [][ ( /\ op = "dial" /\ (radioA - frqA) \in DialSteps
          /\ op' = "tick" /\ run'.ran /\ run'.path = "reconcile"
          /\ Doppler_Shifts(run'.dop100, fdown, fup).fdop1 = fdop1 ) =>
          frqA' = Commanded(fdown, fdop1, rit) + (radioA - frqA) ]_vars

\* the state right after a selection
JustSelected == op \in {"select", "startup"}

\* C18 (as stated): transponder, reference and flip right after a selection
\* depend on the pass alone, whatever happened before it.  The selection made
\* at start-up leaves transponder and reference unassigned for every pass, so
\* every later selection has to reproduce exactly that, with the flip of the
\* sky track.
C18_SelectionIsPure ==
    JustSelected =>
        /\ transp = Unset /\ fdown = Unset
        /\ flipper = FlipDecision(track_az)

\* the track visits quadrant 2 and quadrant 3
BothQuadrants == Q2(track_az) # {} /\ Q3(track_az) # {}

\* C19 (as stated): a track through both quadrants needs the flip unless
\* every quadrant-3 azimuth is below 195 and every quadrant-2 azimuth is
\* above 165.
C19_FlipUnlessBothMargins ==
    (Selected # "None" /\ BothQuadrants) =>
        (flipper <=> ~( /\ \A a \in Q3(track_az) : a < 195
                        /\ \A a \in Q2(track_az) : a > 165 ))

\* C19 (amended): a track through both quadrants needs the flip unless every
\* quadrant-3 azimuth is below 195 or every quadrant-2 azimuth is above 165;
\* the track 100, 170, 190, 260 needs it.
C19_FlipUnlessEitherMargin ==
    (Selected # "None" /\ BothQuadrants) =>
        /\ flipper <=> ~( \/ \A a \in Q3(track_az) : a < 195
                          \/ \A a \in Q2(track_az) : a > 165 )
        /\ (track_az = <<100, 170, 190, 260>>) => flipper

\* the example track has been selected and needs the flip
C19_Witness ==
    op = "select" /\ track_az = <<100, 170, 190, 260>> /\ flipper

\* the names of the pool that qualify as main transponder: they contain
\* FM VOICE, TRANSPONDER or TRANSPODER or are a canonical label, in any
\* letter case, and contain neither PE0SAT nor L/V
Qualifying == { N_FMVoice, N_VUFM, N_Transpoder, N_UVLinear, N_Linear }

QualifyingAt(names) == { i \in 1..Len(names) : names[i] \in Qualifying }

\* C20: the main transponder is the first section, in load order, whose name
\* matches and is not excluded; every later match only adds a warning; with
\* no match the main transponder stays unset.
C20_MainTransponder ==
    (op = "main") =>
        LET q == QualifyingAt(run.names)
        IN  IF q = {}
            THEN run.main = Unset /\ run.warnings = 0
            ELSE /\ run.main = run.names[CHOOSE i \in q : \A j \in q : i <= j]
                 /\ run.warnings = Cardinality(q) - 1

\* an excluded name that matches, then two candidates: the first of them
\* is kept and the second is warned about
C20_Witness ==
    /\ op = "main"
    /\ run.names = <<N_PE0SAT, N_FMVoice, N_Transpoder>>
    /\ run.main = N_FMVoice /\ run.warnings = 1

\* the frequency commands
FreqCmds == {"set_freq_dn", "set_freq_up", "set_freq_sdr"}

\* C21 (as stated): while a satellite without main transponder is selected,
\* a timer tick writes no frequency, does not end the program and still
\* refreshes the AOS/LOS text.
C21_NoMainNonFatal ==
    [][ (op' = "tick" /\ Satellites[Selected].main = "None") =>
          /\ writes' \cap FreqCmds = {}
          /\ phase' # "dead"
          /\ txt9' = AosLosText(aos, los, run'.now) ]_vars

\* the handlers that call track_freqs(True) directly
ForcedCallers == {"RITup", "RITdn", "XITup", "XITdn"}

\* C22 (as stated): the tracker is invoked, by a tick or by a forced
\* command, only when an acquisition has set the transponder.
C22_TrackerNeedsTransponder ==
    (op \in ForcedCallers \/ (op \in {"tick", "ReCenter"} /\ run.ran)) =>
        transp # Unset

\* C23 (as stated): a steady-state tick whose tracker call gets no sample
\* from the propagator issues no hardware write, leaves the reference downlink, the
\* commanded downlink and uplink and the computed uplink as they were, and
\* adds a record to the log.
C23_StaleGeometryHolds ==
    [][ (op' = "tick" /\ run'.ran /\ run'.path = "reconcile" /\ ~run'.sampled) =>
          /\ writes' \cap HardwareCmds = {}
          /\ fdown' = fdown /\ frqA' = frqA /\ frqB' = frqB /\ fup' = fup
          /\ Len(fp_log') = Len(fp_log) + 1 ]_vars

\* C24 (as stated): a tick in which the propagator yields no sample does
\* not end the loop and still runs its remaining step, the AOS/LOS refresh.
C24_TickErrorsContained ==
    [][ (op' = "tick" /\ run'.ran /\ ~run'.sampled /\ rig_type2 # "pySDR") =>
          /\ phase' = phase
          /\ txt9' = AosLosText(aos, los, run'.now) ]_vars

\* C25 (as stated): the timer is created only if the radio is active, the
\* rotor is active unless none is configured, and the SDR is active if one
\* is requested.
C25_DevicesBeforeLoop ==
    (op = "connect" /\ run.timer) =>
        /\ run.rig[2]
        /\ (run.rotor[1] # "NONE" => run.rotor[2])
        /\ (run.sdr[1] => run.sdr[2])

\* whole seconds d as HH:MM:SS, two digits each
ClockText(d) ==
    Fmt02(d \div 3600) \o <<":">> \o Fmt02((d % 3600) \div 60) \o <<":">>
        \o Fmt02(d % 60)

\* the whole seconds of the rational x >= 0
Whole(x) == x[1] \div x[2]

\* now < t for the rational t
Before(now, t) == now * t[2] < t[1]

\* C26 (as stated): after every timer tick the AOS/LOS text is "AOS in" with
\* HH:MM:SS of aos - now before the pass, "LOS in" with HH:MM:SS of
\* los - now during the pass, and "Past Event" from los on.
C26_AosLosText ==
    (op = "tick") =>
        txt9 = IF Before(run.now, aos)
               THEN [label |-> "AOS in",
                     hms |-> ClockText(Whole(RatSub(aos, FromInt(run.now))))]
               ELSE IF Before(run.now, los)
               THEN [label |-> "LOS in",
                     hms |-> ClockText(Whole(RatSub(los, FromInt(run.now))))]
               ELSE [label |-> "Past Event", hms |-> <<>>]

\* C27 (as stated): every timer tick after the acquisition adds exactly one
\* record to the log, nothing but a tick adds a record, and the records
\* already written stay as they are.
C27_OneRecordPerTick ==
    [][ /\ (op' = "tick" /\ fdown # Unset /\ ~New_Sat_Selection
                /\ rig_type2 # "pySDR") => Len(fp_log') = Len(fp_log) + 1
        /\ (op' # "tick") => fp_log' = fp_log
        /\ Len(fp_log') >= Len(fp_log)
        /\ \A i \in 1..Len(fp_log) : fp_log'[i] = fp_log[i] ]_vars

\* the changes the RIT and XIT commands make to an offset
OffsetAfter(v, up, dn, clear) ==
    IF op' = up THEN v + 100
    ELSE IF op' = dn THEN v - 100
    ELSE IF op' = clear THEN 0
    ELSE v

\* C28 (as stated): the offsets and engaged start at zero and false; each
\* changes only through its own commands, select_satellite included among
\* the steps that leave engaged unchanged.
C28_OwnCommandsOnly ==
    /\ (rit = 0 /\ xit = 0 /\ ~rig_engaged)
    /\ [][ /\ rit' = OffsetAfter(rit, "RITup", "RITdn", "RITclear")
           /\ xit' = OffsetAfter(xit, "XITup", "XITdn", "XITclear")
           /\ rig_engaged' = IF op' = "toggle" THEN ~rig_engaged
                             ELSE rig_engaged ]_vars

\* C28 (amended): as above, except that select_satellite sets engaged to
\* false.
C28_SelectDisengages ==
    /\ (rit = 0 /\ xit = 0 /\ ~rig_engaged)
    /\ [][ /\ rit' = OffsetAfter(rit, "RITup", "RITdn", "RITclear")
           /\ xit' = OffsetAfter(xit, "XITup", "XITdn", "XITclear")
           /\ rig_engaged' = IF op' = "toggle" THEN ~rig_engaged
                             ELSE IF op' \in {"select", "startup"} THEN FALSE
                             ELSE rig_engaged ]_vars

\* a pass has been selected right after a tracker run made while engaged
C28_Witness ==
    /\ op = "select" /\ cmds = 2 /\ ~rig_engaged
    /\ fp_log # <<>> /\ fp_log[Len(fp_log)].rig_engaged

\* C29 (as stated): no operator-command handler runs inside a tick, and no
\* tick runs while an operator-command handler has not returned.
C29_HandlersAtomic ==
    /\ (op = "tick" /\ run.ran) => run.nested = <<>>
    /\ ~(op = "tick" /\ phase = "dialog")

\* C30 (as stated): when the operator engages after the selection made at
\* start-up, the first tick writes the passband centre plus its Doppler
\* shift plus rit to the downlink VFO, and the uplink mapped from the centre
\* plus its Doppler shift plus xit to the uplink VFO.
C30_FirstWriteIsCentre ==
    [][ ( /\ cmds = 1 /\ op = "toggle" /\ rig_engaged
          /\ op' = "tick" /\ run'.ran /\ run'.done ) =>
          LET t  == TranspRec(transp')
              c  == Center(t)
              fu == UplinkFreq(t, c)
              ds == Doppler_Shifts(run'.dop100, c, fu)
          IN  /\ "set_freq_dn" \in writes'
              /\ radioA' = Commanded(c, ds.fdop1, rit)
              /\ frqB' = <<Commanded(fu, ds.fdop2, xit)>> ]_vars

\* C31 (as stated): whenever the tracker runs, the transponder it uses is
\* the main transponder of the satellite that is selected.
C31_TrackerUsesSelection ==
    (run.ran /\ Selected # "None") =>
        transp = <<Selected, Satellites[Selected].main>>

\* C32: every select_satellite ends with engaged false; engaged becomes true
\* only through toggle-engage; and a timer tick that starts with engaged
\* false writes no frequency and no rotor position and leaves engaged false.
C32_SelectTurnsTrackingOff ==
    [][ /\ (op' \in {"select", "startup"}) => ~rig_engaged'
        /\ (~rig_engaged /\ rig_engaged') => op' = "toggle"
        /\ (op' = "tick" /\ ~rig_engaged) =>
              (writes' \cap FreqRotorCmds = {} /\ ~rig_engaged') ]_vars

\* the first tick after another pass was selected while the tracker was
\* engaged: engaged is false and the tick writes nothing
C32_Witness ==
    /\ op = "tick" /\ cmds = 2 /\ ~rig_engaged
    /\ Len(fp_log) = 1 /\ fp_log[1].rig_engaged
    /\ fp_log[1].Selected # Selected
    /\ writes \cap FreqRotorCmds = {}

\* the reference downlink is the passband centre and the radio reports the
\* downlink frequency the tracker wrote last
CentredAndOwn ==
    /\ transp # Unset
    /\ fdown = Center(TranspRec(transp))
    /\ radioA = frqA

\* C33: a steady-state tick at which the radio reports the downlink
\* frequency written last leaves the reference downlink unchanged; an
\* engaged acquisition that wrote the downlink leaves the reference at the
\* passband centre with the radio on the written frequency, and ticks and
\* forced RIT/XIT updates keep it so.
C33_OwnWritesNotRetune ==
    [][ /\ (op' = "tick" /\ run'.ran /\ run'.path = "reconcile" /\ radioA = frqA)
              => fdown' = fdown
        /\ (op' = "tick" /\ run'.ran /\ run'.path = "acquire" /\ run'.engaged
                /\ "set_freq_dn" \in writes') => CentredAndOwn'
        /\ (CentredAndOwn /\ op' \in {"tick"} \cup ForcedCallers)
              => CentredAndOwn' ]_vars

\* a steady-state tick after an engaged acquisition: the Doppler shift has
\* changed, the tick wrote another downlink frequency than the one it read
\* back, and the reference is still the passband centre
C33_Witness ==
    /\ op = "tick" /\ run.ran /\ run.path = "reconcile" /\ rig_engaged
    /\ Len(fp_log) = 2 /\ fp_log[1].rig_engaged
    /\ "set_freq_dn" \in writes /\ radioA # run.frq
    /\ ~run.retuned
    /\ fdown = Center(TranspRec(transp))

\* C34: engaged is true only while a satellite is selected, whatever
\* commands and ticks have been handled, toggle-engage with no satellite
\* selected included.
C34_EngagedNeedsSelection ==
    rig_engaged => Selected # "None"

\* toggle-engage has been handled with no satellite selected
C34_Witness ==
    op = "toggle" /\ Selected = "None" /\ ~rig_engaged /\ writes = {"split_mode"}

\* C35 (as stated): with every rig type the acquisition accepts, the
\* acquisition tick clears the new-selection flag and writes a log record,
\* so that the next tick does not acquire again.
C35_AcquisitionCompletes ==
    [][ (op' = "tick" /\ run'.ran /\ run'.path = "acquire" /\ run'.sampled) =>
          /\ ~New_Sat_Selection'
          /\ Len(fp_log') = Len(fp_log) + 1 ]_vars

\* C36: Re-center handled while no transponder has been acquired leaves
\* the reference downlink unset, issues no device command, raises nothing
\* into the event loop and changes nothing the acquisition reads or sets.
C36_ReCenterFailsSafely ==
    [][ (op' = "ReCenter" /\ transp = Unset) =>
          /\ fdown' = Unset
          /\ writes' = {}
          /\ ~run'.raised /\ phase' = phase
          /\ UNCHANGED <<guiVars, ctrlVars, hwVars>> ]_vars

\* Re-center has been handled after a selection and before any acquisition
C36_Witness ==
    /\ op = "ReCenter" /\ Selected # "None" /\ New_Sat_Selection
    /\ transp = Unset /\ fdown = Unset /\ writes = {} /\ phase = "running"

\* C37 (as stated): on a two-VFO rig set_rig_mode(mode), for each of USB,
\* LSB, CW and FM, sends a mode to both VFOs: mode to the downlink VFO; to
\* the uplink VFO mode if the transponder does not invert, and LSB for USB,
\* USB for LSB, CW-R for CW if it does.
C37_ModeOnBothVfos ==
    [][ (op' = "ModeSelect" /\ Len(vfos) > 1) =>
          LET t == TranspRec(transp)
              md == mode_cb'
          IN  /\ {"set_mode_dn", "set_mode_up"} \subseteq writes'
              /\ modeDn' = md
              /\ ~t.Inverting => modeUp' = md
              /\ (t.Inverting /\ md = "USB") => modeUp' = "LSB"
              /\ (t.Inverting /\ md = "LSB") => modeUp' = "USB"
              /\ (t.Inverting /\ md = "CW") => modeUp' = "CW-R" ]_vars

\* C38: for a true azimuth in [0, 360) and a true elevation in [-90, 90]
\* the rotor target has its azimuth in [0, 360) and its elevation in
\* [0, 90] when unflipped and in [90, 180] when flipped.
C38_TargetInRange ==
    (op = "target") =>
        /\ run.new_pos[1] >= 0 /\ run.new_pos[1] < 360
        /\ ~run.flipper => (run.new_pos[2] >= 0 /\ run.new_pos[2] <= 90)
        /\ run.flipper => (run.new_pos[2] >= 90 /\ run.new_pos[2] <= 180)

\* a flipped target for a satellite below the horizon at azimuth 359 whose
\* track starts at 180: the target is the far end of the range, (0, 180)
C38_Witness ==
    /\ op = "target" /\ run.flipper
    /\ run.az = 359 /\ run.el = -90 /\ run.a0 = 180
    /\ run.new_pos = <<0, 180>>

====
